---- MODULE Spec2Model ----
(***************************************************************************)
(* Model of the skeleton tracer (PolylineFitting), the polyline merger and *)
(* the geometry utilities (FittingUtils).                                  *)
(*                                                                         *)
(* A pixel locator (a BitImage iterator, begin() + m_cols * r + c) is the  *)
(* linear index m_cols * r + c.  A polyline is a sequence of locators.     *)
(* Sequences are 1-based; a C++ iterator position p of a vector is index   *)
(* p + 1, and end() is Len + 1.                                            *)
(***************************************************************************)
EXTENDS Integers, Sequences, FiniteSets

VARIABLES
    pc,              \* position of the running call
    m_rows, m_cols,  \* BitImage dimensions
    image,           \* BitImage bits, by linear index
    image0,          \* history: the bits as handed to fitPolylines
    minSectionSize, maxRecursions, doThinning,   \* entry-point arguments
    difference, iteration, onPixels,             \* locals of thinImage
    stack,           \* activation records of the recursive fitPolylines
    result,          \* value returned by the entry point
    nThinIter, nLeafFits, nSplits,               \* history: steps executed
    destPolylines, srcPolylines, srcEnd, destIt, \* mergePolylines
    merged,          \* value returned by mergePolylines
    dest0, src0,     \* history: the arguments of mergePolylines
    dropped,         \* history: the shared locator of every merge performed
    points,          \* simplifyPolyline: the coordinates of point 1..n
    range,           \* the range, as point numbers; range0 at the call
    range0,
    epsilon,
    kept,            \* returned iterator: position of the first discarded
    again,           \* the range after a second call on the kept prefix
    keptAgain,       \* iterator returned by the second call
    fitPoints,       \* fitSegment2D: the coordinates of the input points
    tolerance,       \* fuzzyCompare's 1e-9 in units of the points' grid
    nIterations, nSamples, maxInliersDistance,   \* arguments, as updated
    nIterations0,    \* history: nIterations as passed
    bestFitSegment, smallestSumSquaredDistance,  \* locals of fitSegment2D
    iA, iB, slopePoints,                         \* the pair of an iteration
    sampleN,         \* n of the sampling loop
    wasSampled, sumSquaredDistance, segmentPoints,
    visited,         \* history: the indices sampled in this iteration
    nAccepted        \* history: iterations that set bestFitSegment

\* variables of the stand-alone calls of mergePolylines and simplifyPolyline
utilVars == <<destPolylines, srcPolylines, srcEnd, destIt, merged, dest0,
              src0, dropped, points, range, range0, epsilon, kept,
              again, keptAgain>>

traceVars == <<m_rows, m_cols, image, image0, minSectionSize, maxRecursions,
               doThinning, difference, iteration, onPixels, stack, result,
               nThinIter, nLeafFits, nSplits>>

\* variables of the stand-alone calls of fitSegment2D
ransacVars == <<fitPoints, tolerance, nIterations, nSamples,
                maxInliersDistance, nIterations0, bestFitSegment,
                smallestSumSquaredDistance, iA, iB, slopePoints, sampleN,
                wasSampled, sumSquaredDistance, segmentPoints, visited,
                nAccepted>>

vars == <<pc, traceVars, utilVars, ransacVars>>

(***************************************************************************)
(* Bounds of the model.                                                    *)
(***************************************************************************)
MaxRows == 5
MaxCols == 3
MaxOn == 2
MaxThinOn == 2
MaxThinSize == 4
MaxMinSectionSize == 8
MaxMaxRecursions == 2
MaxLoc == 4
MaxPixels == 6
MaxLen == 4
MaxFitPoints == 3
MaxIterations == 2

\* argument values tried for every image (the scenario images are tried
\* with every minSectionSize up to MaxMinSectionSize and every maxRecursions
\* up to MaxMaxRecursions)
MinSectionSizes == {3, 6}
MaxRecursionValues == {0, 1}
\* coordinates and epsilons of the polylines given to simplifyPolyline
Coordinates == 0..2
Epsilons == 0..2
\* fitSegment2D: the grid points, and for the scenarios nSamples and
\* maxInliersDistance
FitCoordinates == (0..2) \X (0..1)
FitSamples == {0, 2, 3}
InlierDistances == {0, 1}

(***************************************************************************)
(* Program constants.                                                      *)
(***************************************************************************)
minSize == 3
MinSplitFloor == 5
minOnPixels == 5
Int32Max == 2147483647

(***************************************************************************)
(* Helpers standing for the standard library.                              *)
(***************************************************************************)
Max(a, b) == IF a >= b THEN a ELSE b

Min(a, b) == IF a <= b THEN a ELSE b

Abs(a) == IF a >= 0 THEN a ELSE -a

Reverse(s) == [i \in 1..Len(s) |-> s[Len(s) + 1 - i]]

\* std::find_if(first, last, pred) over positions from..Len(s): the first
\* position holding a pixel whose bit is `bit`, or Len(s) + 1 (end)
RECURSIVE FindIf(_, _, _, _)
FindIf(img, s, from, bit) ==
    IF from > Len(s) THEN Len(s) + 1
    ELSE IF (img[s[from]] # 0) = bit THEN from
    ELSE FindIf(img, s, from + 1, bit)

\* the subsets of 0..n-1 with at most k elements
RECURSIVE SubsetsUpTo(_, _)
SubsetsUpTo(n, k) ==
    IF k = 0 THEN {{}}
    ELSE LET prev == SubsetsUpTo(n, k - 1)
         IN  prev \cup {T \cup {x} : T \in prev, x \in 0..(n - 1)}

(***************************************************************************)
(* BitImage.                                                               *)
(***************************************************************************)
Find(row, col) == m_cols * row + col

Coords(px) == <<px \div m_cols, px % m_cols>>

\* section(r0, c0, rows, cols): the locators of the rectangle, row-major
Section(r0, c0, rows, cols) ==
    IF rows <= 0 \/ cols <= 0 THEN <<>>
    ELSE [i \in 1..(rows * cols) |->
             Find(r0 + ((i - 1) \div cols), c0 + ((i - 1) % cols))]

OnCount(img) == Cardinality({px \in DOMAIN img : img[px] # 0})

BitsOf(n, on) == [px \in 0..(n - 1) |-> IF px \in on THEN 1 ELSE 0]

(***************************************************************************)
(* thinImage: the Zhang-Suen test of one candidate pixel.                  *)
(***************************************************************************)
B2I(b) == IF b THEN 1 ELSE 0

IsFlagged(img, iter, px) ==
    LET r == Coords(px)[1]
        c == Coords(px)[2]
        p2 == img[Find(r - 1, c + 0)]
        p3 == img[Find(r - 1, c + 1)]
        p4 == img[Find(r + 0, c + 1)]
        p5 == img[Find(r + 1, c + 1)]
        p6 == img[Find(r + 1, c + 0)]
        p7 == img[Find(r + 1, c - 1)]
        p8 == img[Find(r + 0, c - 1)]
        p9 == img[Find(r - 1, c - 1)]
        A == B2I(p2 = 0 /\ p3 # 0) + B2I(p3 = 0 /\ p4 # 0)
             + B2I(p4 = 0 /\ p5 # 0) + B2I(p5 = 0 /\ p6 # 0)
             + B2I(p6 = 0 /\ p7 # 0) + B2I(p7 = 0 /\ p8 # 0)
             + B2I(p8 = 0 /\ p9 # 0) + B2I(p9 = 0 /\ p2 # 0)
        B == p2 + p3 + p4 + p5 + p6 + p7 + p8 + p9
        m1 == IF iter THEN p2 # 0 /\ p4 # 0 /\ p8 # 0
                      ELSE p2 # 0 /\ p4 # 0 /\ p6 # 0
        m2 == IF iter THEN p2 # 0 /\ p6 # 0 /\ p8 # 0
                      ELSE p4 # 0 /\ p6 # 0 /\ p8 # 0
    IN  A = 1 /\ (B >= 2 /\ B <= 6) /\ ~m1 /\ ~m2

\* the candidates thinImage starts from: the canvas inside the border
InteriorPixels == Section(1, 1, m_rows - 2, m_cols - 2)

\* a plausible slip: the pixel after the flagged one is cleared
ClearPixels_Next(img, flagged) ==
    [px \in DOMAIN img |->
        IF \E i \in 1..Len(flagged) : flagged[i] + 1 = px THEN 0 ELSE img[px]]

\* a plausible slip: the flagged pixels are never written
ClearPixels_Skip(img, flagged) == img

\* std::for_each(flaggedPixels, *px = 0)
ClearPixels(img, flagged) ==
    [px \in DOMAIN img |->
        IF \E i \in 1..Len(flagged) : flagged[i] = px THEN 0 ELSE img[px]]

(***************************************************************************)
(* The recursive fitPolylines: emptiness test, leaf test, split search.    *)
(***************************************************************************)
\* a plausible slip: the test is inverted
IsEmpty_Inverted(r0, c0, rows, cols) ==
    \E i \in 1..(rows * cols) : image[Section(r0, c0, rows, cols)[i]] # 0

\* isEmpty(image.section(r0, c0, rows, cols))
IsEmpty(r0, c0, rows, cols) ==
    ~ \E i \in 1..(rows * cols) : image[Section(r0, c0, rows, cols)[i]] # 0

\* arguments the entry point hands to the recursion
EffMinSectionSize == Max(minSectionSize, minSize)

\* a plausible slip: 0 is passed on as it is
EffMaxRecursions_NotSaturated == maxRecursions

EffMaxRecursions == IF maxRecursions # 0 THEN maxRecursions ELSE Int32Max

\* a plausible slip: the floor of the split bound is left out
SplitSizeFor_NoFloor(requested) == Max(requested, minSize)

\* minSplitSize for a requested minSectionSize
SplitSizeFor(requested) == Max(Max(requested, minSize), MinSplitFloor)

minSplitSize == SplitSizeFor(minSectionSize)

\* a plausible slip: || for &&
IsLeaf_Or(rows, cols, iter) ==
    iter >= EffMaxRecursions \/ (cols < minSplitSize \/ rows < minSplitSize)

\* the section goes to the leaf fitter, for a requested minSectionSize
IsLeafFor(requested, rows, cols, iter) ==
    \/ iter >= EffMaxRecursions
    \/ (cols < SplitSizeFor(requested) /\ rows < SplitSizeFor(requested))

\* the section goes to the leaf fitter
IsLeaf(rows, cols, iter) == IsLeafFor(minSectionSize, rows, cols, iter)

\* a plausible slip: the division by 2 is left out
SplitOffset_NotHalved(i) == IF i % 2 = 0 THEN i + 1 ELSE -(i + 1)

\* static_cast<int32_t>(std::pow(-1, i)) * (i + 1) / 2
SplitOffset(i) == IF i % 2 = 0 THEN (i + 1) \div 2 ELSE -((i + 1) \div 2)

SplitCandidate(r0, c0, rows, cols, i) ==
    IF rows >= cols THEN r0 + (rows \div 2) + SplitOffset(i)
                    ELSE c0 + (cols \div 2) + SplitOffset(i)

\* on-pixels of the candidate row or column
LineOnCount(r0, c0, rows, cols, cand) ==
    LET pixels == IF rows >= cols THEN Section(cand, c0, 1, cols)
                                  ELSE Section(r0, cand, rows, 1)
    IN  Cardinality({i \in 1..Len(pixels) : image[pixels[i]] # 0})

\* the search loop; minOn starts above every possible count
RECURSIVE SplitLoop(_, _, _, _, _, _, _)
SplitLoop(r0, c0, rows, cols, i, bestSplit, minOn) ==
    LET iMax == IF rows >= cols THEN rows - 4 ELSE cols - 4
    IN  IF i >= iMax THEN bestSplit
        ELSE LET cand == SplitCandidate(r0, c0, rows, cols, i)
                 nOnPixels == LineOnCount(r0, c0, rows, cols, cand)
                 best == IF nOnPixels < minOn THEN cand ELSE bestSplit
                 newMin == Min(minOn, nOnPixels)
             IN  IF newMin = 0 THEN best
                 ELSE SplitLoop(r0, c0, rows, cols, i + 1, best, newMin)

BestSplit(r0, c0, rows, cols) == SplitLoop(r0, c0, rows, cols, 0, -1, Int32Max)

(***************************************************************************)
(* fitSegments: the leaf fitter.                                           *)
(***************************************************************************)
\* a plausible slip: the frame is walked row-major instead of clockwise
Frame_RowMajor(r0, c0, rows, cols) ==
    LET r1 == r0 + rows - 1
        c1 == c0 + cols - 1
    IN  Section(r0, c0, 1, cols - 1) \o Section(r0, c1, rows - 1, 1)
        \o Section(r1, c0 + 1, 1, cols - 1) \o Section(r0 + 1, c0, rows - 1, 1)

\* pixelsFrame: top row, right column, bottom row reversed, left column
\* reversed
Frame(r0, c0, rows, cols) ==
    LET r1 == r0 + rows - 1
        c1 == c0 + cols - 1
        topRow == Section(r0, c0, 1, cols - 1)
        rightCol == Section(r0, c1, rows - 1, 1)
        bottomRow == Section(r1, c0 + 1, 1, cols - 1)
        leftCol == Section(r0 + 1, c0, rows - 1, 1)
    IN  topRow \o rightCol \o Reverse(bottomRow) \o Reverse(leftCol)

\* std::rotate(begin, begin + (k - 1), end)
Rotate(s, k) == [i \in 1..Len(s) |-> s[((i + k - 2) % Len(s)) + 1]]

\* pxCenter
SectionCenter(r0, c0, rows, cols) ==
    Find(r0 + (rows \div 2), c0 + (cols \div 2))

\* a plausible slip: the midpoint is counted from pxOff, not from pxOn
RECURSIVE ScanRuns_MidFromOff(_, _, _)
ScanRuns_MidFromOff(frame, pxOff, pxCenter) ==
    LET pxOn == FindIf(image, frame, pxOff, TRUE)
        newOff == FindIf(image, frame, pxOn, FALSE)
        mid == pxOff + ((newOff - pxOn) \div 2)
    IN  IF pxOn = Len(frame) + 1 THEN <<>>
        ELSE <<<<frame[mid], pxCenter>>>>
             \o ScanRuns_MidFromOff(frame, newOff, pxCenter)

\* The do-while scan.  pxOff is the position the scan resumes from.  In the
\* last pass pxOn is end and the pixel read for pxMid (position end) is
\* not used: no segment is emitted from it.
RECURSIVE ScanRuns(_, _, _)
ScanRuns(frame, pxOff, pxCenter) ==
    LET pxOn == FindIf(image, frame, pxOff, TRUE)
        newOff == FindIf(image, frame, pxOn, FALSE)
        mid == pxOn + ((newOff - pxOn) \div 2)
    IN  IF pxOn = Len(frame) + 1 THEN <<>>
        ELSE <<<<frame[mid], pxCenter>>>> \o ScanRuns(frame, newOff, pxCenter)

\* segments before the count cases.  std::rotate moves the elements, not
\* the iterator: pxOff keeps the position it had before the rotation.
Segments(r0, c0, rows, cols) ==
    LET pixelsFrame == Frame(r0, c0, rows, cols)
        pxOff == FindIf(image, pixelsFrame, 1, FALSE)
        pxOn == FindIf(image, pixelsFrame, 1, TRUE)
    IN  IF pxOff = Len(pixelsFrame) + 1 \/ pxOn = Len(pixelsFrame) + 1
        THEN <<>>
        ELSE ScanRuns(Rotate(pixelsFrame, pxOff), pxOff,
                      SectionCenter(r0, c0, rows, cols))

\* on-pixels of the 3x3 neighbourhood of px
Conv(px) ==
    LET pixels == Section(Coords(px)[1] - 1, Coords(px)[2] - 1, 3, 3)
    IN  Cardinality({i \in 1..Len(pixels) : image[pixels[i]] # 0})

CenterDistance(px, pxCenter) ==
    Abs(Coords(px)[1] - Coords(pxCenter)[1])
    + Abs(Coords(px)[2] - Coords(pxCenter)[2])

\* The loop over the canvas sorted by distance to the centre.  std::sort
\* leaves the order of pixels at equal distance unspecified, so a distance
\* level is visited in any order: within a level the loop stops at the
\* first pixel reaching minOnPixels, else keeps the first pixel of the
\* level's best count when that count beats maxConv.  The result is the set
\* of pixels the loop can end on.
RECURSIVE IntersectionScan(_, _, _, _, _)
IntersectionScan(canvas, pxCenter, d, maxConv, found) ==
    LET level == {px \in canvas : CenterDistance(px, pxCenter) = d}
        enough == {px \in level : Conv(px) >= minOnPixels}
        best == CHOOSE n \in {Conv(px) : px \in level} :
                    \A px \in level : Conv(px) <= n
    IN  IF level = {} THEN found
        ELSE IF enough # {} THEN enough
        ELSE IF best > maxConv
             THEN IntersectionScan(canvas, pxCenter, d + 1, best,
                                   {px \in level : Conv(px) = best})
             ELSE IntersectionScan(canvas, pxCenter, d + 1, maxConv, found)

IntersectionCandidates(r0, c0, rows, cols) ==
    LET pxsCanvas == Section(r0 + 1, c0 + 1, rows - 2, cols - 2)
    IN  IntersectionScan({pxsCanvas[i] : i \in 1..Len(pxsCanvas)},
                         SectionCenter(r0, c0, rows, cols), 0, -1, {})

\* the value fitSegments returns when the canvas loop ends on pxIntersection
FitSegments(r0, c0, rows, cols, pxIntersection) ==
    LET segments == Segments(r0, c0, rows, cols)
    IN  IF Len(segments) = 2
        THEN <<<<segments[1][1], segments[2][1]>>>>
        ELSE [i \in 1..Len(segments) |-> <<segments[i][1], pxIntersection>>]

(***************************************************************************)
(* mergePolylines.                                                         *)
(***************************************************************************)
Front(pl) == pl[1]

Back(pl) == pl[Len(pl)]

\* std::find_if(srcPolylines.begin(), srcEnd, ...): the first source whose
\* front (atFront) or back equals px, or 0 for srcEnd (none)
FindSrc(src, sEnd, px, atFront) ==
    LET hits == {j \in 1..sEnd :
                    (IF atFront THEN Front(src[j]) ELSE Back(src[j])) = px}
    IN  IF hits = {} THEN 0 ELSE CHOOSE j \in hits : \A k \in hits : j <= k

\* std::iter_swap(srcIt, --srcEnd)
SwapToEnd(src, j, sEnd) ==
    [src EXCEPT ![j] = src[sEnd], ![sEnd] = src[j]]

\* a plausible slip: the whole source is spliced, the shared pixel twice
Splice_KeepShared(dest, s, atDestFront, atSrcFront) ==
    IF atDestFront
    THEN (IF atSrcFront THEN Reverse(s) ELSE s) \o dest
    ELSE dest \o (IF atSrcFront THEN s ELSE Reverse(s))

\* the four dest.insert calls: source s joins dest at dest's front or back,
\* by s's front or back, without the shared pixel
Splice(dest, s, atDestFront, atSrcFront) ==
    IF atDestFront
    THEN (IF atSrcFront THEN Reverse(Tail(s))
                        ELSE SubSeq(s, 1, Len(s) - 1)) \o dest
    ELSE dest \o (IF atSrcFront THEN Tail(s)
                                ELSE Reverse(SubSeq(s, 1, Len(s) - 1)))

\* a plausible slip: only front-front and back-back are tried
MergeOne_SameEndsOnly(dest, src, sEnd) ==
    LET ff == FindSrc(src, sEnd, Front(dest), TRUE)
        bb == FindSrc(src, sEnd, Back(dest), FALSE)
        hit(j, atDestFront, atSrcFront) ==
            [dest |-> Splice(dest, src[j], atDestFront, atSrcFront),
             src |-> SwapToEnd(src, j, sEnd), srcEnd |-> sEnd - 1,
             merged |-> TRUE,
             shared |-> IF atDestFront THEN Front(dest) ELSE Back(dest)]
    IN  IF ff # 0 THEN hit(ff, TRUE, TRUE)
        ELSE IF bb # 0 THEN hit(bb, FALSE, FALSE)
        ELSE [dest |-> dest, src |-> src, srcEnd |-> sEnd,
              merged |-> FALSE, shared |-> -1]

\* one pass of the loop over dests: the four tests in order, the
\* first match wins.  merged and shared report what the pass did.
MergeOne(dest, src, sEnd) ==
    LET ff == FindSrc(src, sEnd, Front(dest), TRUE)
        fb == FindSrc(src, sEnd, Front(dest), FALSE)
        bf == FindSrc(src, sEnd, Back(dest), TRUE)
        bb == FindSrc(src, sEnd, Back(dest), FALSE)
        hit(j, atDestFront, atSrcFront) ==
            [dest |-> Splice(dest, src[j], atDestFront, atSrcFront),
             src |-> SwapToEnd(src, j, sEnd), srcEnd |-> sEnd - 1,
             merged |-> TRUE,
             shared |-> IF atDestFront THEN Front(dest) ELSE Back(dest)]
    IN  IF ff # 0 THEN hit(ff, TRUE, TRUE)
        ELSE IF fb # 0 THEN hit(fb, TRUE, FALSE)
        ELSE IF bf # 0 THEN hit(bf, FALSE, TRUE)
        ELSE IF bb # 0 THEN hit(bb, FALSE, FALSE)
        ELSE [dest |-> dest, src |-> src, srcEnd |-> sEnd,
              merged |-> FALSE, shared |-> -1]

RECURSIVE MergeLoop(_, _, _, _)
MergeLoop(dests, srcs, sEnd, i) ==
    IF i > Len(dests)
    THEN dests \o SubSeq(srcs, 1, sEnd)
    ELSE LET one == MergeOne(dests[i], srcs, sEnd)
         IN  MergeLoop([dests EXCEPT ![i] = one.dest], one.src,
                       one.srcEnd, i + 1)

MergePolylines(dests, srcs) ==
    IF dests = <<>> THEN srcs
    ELSE IF srcs = <<>> THEN dests
    ELSE MergeLoop(dests, srcs, Len(srcs), 1)

(***************************************************************************)
(* The entry point fitPolylines(BitImage&&, ...) as a state machine: the    *)
(* size guard, the thinner's loop, the recursion with its activation        *)
(* records, the conversion of the locators to coordinates.                  *)
(***************************************************************************)
\* a plausible slip: && for ||
IsTooSmall_And == m_rows < minSize /\ m_cols < minSize

IsTooSmall == m_rows < minSize \/ m_cols < minSize

Call(r0, c0, rows, cols, iter) ==
    [r0 |-> r0, c0 |-> c0, rows |-> rows, cols |-> cols, iter |-> iter,
     stage |-> "call", rSplit |-> -1, cSplit |-> -1,
     dest |-> <<>>, src |-> <<>>]

RootCall == Call(0, 0, m_rows, m_cols, 0)

Top == stack[Len(stack)]

\* image.coords(px) over every polyline
ToCoords(polylines) ==
    [i \in 1..Len(polylines) |->
        [j \in 1..Len(polylines[i]) |-> Coords(polylines[i][j])]]

\* the two recursive calls of a split frame
FirstHalf(f) ==
    IF f.rSplit # -1
    THEN Call(f.r0, f.c0, f.rSplit - f.r0 + 1, f.cols, f.iter + 1)
    ELSE Call(f.r0, f.c0, f.rows, f.cSplit - f.c0 + 1, f.iter + 1)

SecondHalf(f) ==
    IF f.rSplit # -1
    THEN Call(f.rSplit, f.c0, f.r0 + f.rows - f.rSplit, f.cols, f.iter + 1)
    ELSE Call(f.r0, f.cSplit, f.rows, f.c0 + f.cols - f.cSplit, f.iter + 1)

\* the top activation returns v: to the entry point, or to the caller, which
\* goes on to its second call or to the merge
Return(v) ==
    IF Len(stack) = 1
    THEN /\ stack' = <<>>
         /\ result' = ToCoords(v)
         /\ pc' = "done"
    ELSE LET caller == stack[Len(stack) - 1]
             below == SubSeq(stack, 1, Len(stack) - 2)
         IN  /\ stack' = IF caller.stage = "first"
                         THEN below \o <<[caller EXCEPT !.stage = "second",
                                                        !.dest = v],
                                         SecondHalf(caller)>>
                         ELSE below \o <<[caller EXCEPT !.stage = "merge",
                                                        !.src = v]>>
             /\ UNCHANGED <<result, pc>>

TooSmall ==
    /\ pc = "start"
    /\ IsTooSmall
    /\ result' = <<>>
    /\ pc' = "done"
    /\ UNCHANGED <<utilVars, ransacVars, m_rows, m_cols, image, image0,
                   minSectionSize, maxRecursions, doThinning, difference,
                   iteration, onPixels, stack, nThinIter, nLeafFits, nSplits>>

StartThinning ==
    /\ pc = "start"
    /\ ~IsTooSmall
    /\ doThinning
    /\ pc' = "thin"
    /\ difference' = TRUE
    /\ iteration' = FALSE
    /\ onPixels' = InteriorPixels
    /\ UNCHANGED <<utilVars, ransacVars, m_rows, m_cols, image, image0,
                   minSectionSize, maxRecursions, doThinning, stack, result,
                   nThinIter, nLeafFits, nSplits>>

StartTracing ==
    /\ pc = "start"
    /\ ~IsTooSmall
    /\ ~doThinning
    /\ pc' = "trace"
    /\ stack' = <<RootCall>>
    /\ UNCHANGED <<utilVars, ransacVars, m_rows, m_cols, image, image0,
                   minSectionSize, maxRecursions, doThinning, difference,
                   iteration, onPixels, result, nThinIter, nLeafFits,
                   nSplits>>

\* one pass of thinImage's while loop
ThinIter ==
    /\ pc = "thin"
    /\ difference
    /\ LET remaining == SelectSeq(onPixels, LAMBDA px : image[px] # 0)
           flaggedPixels ==
               SelectSeq(remaining, LAMBDA px : IsFlagged(image, iteration, px))
       IN  /\ onPixels' = remaining
           /\ image' = ClearPixels(image, flaggedPixels)
           /\ difference' = (flaggedPixels # <<>>)
    /\ iteration' = ~iteration
    /\ nThinIter' = nThinIter + 1
    /\ UNCHANGED <<utilVars, ransacVars, pc, m_rows, m_cols, image0,
                   minSectionSize, maxRecursions, doThinning, stack, result,
                   nLeafFits, nSplits>>

\* the loop ends; the entry point calls the recursion on the whole image
ThinExit ==
    /\ pc = "thin"
    /\ ~difference
    /\ pc' = "trace"
    /\ stack' = <<RootCall>>
    /\ UNCHANGED <<utilVars, ransacVars, m_rows, m_cols, image, image0,
                   minSectionSize, maxRecursions, doThinning, difference,
                   iteration, onPixels, result, nThinIter, nLeafFits,
                   nSplits>>

\* the section holds no on-pixel
TraceEmpty ==
    /\ pc = "trace"
    /\ Top.stage = "call"
    /\ IsEmpty(Top.r0, Top.c0, Top.rows, Top.cols)
    /\ Return(<<>>)
    /\ UNCHANGED <<utilVars, ransacVars, m_rows, m_cols, image, image0,
                   minSectionSize, maxRecursions, doThinning, difference,
                   iteration, onPixels, nThinIter, nLeafFits, nSplits>>

\* the section goes to fitSegments
TraceLeaf ==
    /\ pc = "trace"
    /\ Top.stage = "call"
    /\ ~IsEmpty(Top.r0, Top.c0, Top.rows, Top.cols)
    /\ IsLeaf(Top.rows, Top.cols, Top.iter)
    /\ \E pxIntersection \in
              IntersectionCandidates(Top.r0, Top.c0, Top.rows, Top.cols) :
          Return(FitSegments(Top.r0, Top.c0, Top.rows, Top.cols,
                             pxIntersection))
    /\ nLeafFits' = nLeafFits + 1
    /\ UNCHANGED <<utilVars, ransacVars, m_rows, m_cols, image, image0,
                   minSectionSize, maxRecursions, doThinning, difference,
                   iteration, onPixels, nThinIter, nSplits>>

\* the section is split and the first half is called
TraceSplit ==
    /\ pc = "trace"
    /\ Top.stage = "call"
    /\ ~IsEmpty(Top.r0, Top.c0, Top.rows, Top.cols)
    /\ ~IsLeaf(Top.rows, Top.cols, Top.iter)
    /\ LET bestSplit == BestSplit(Top.r0, Top.c0, Top.rows, Top.cols)
           f == [Top EXCEPT
                    !.stage = "first",
                    !.rSplit = IF Top.rows >= Top.cols THEN bestSplit ELSE -1,
                    !.cSplit = IF Top.rows >= Top.cols THEN -1 ELSE bestSplit]
       IN  stack' = SubSeq(stack, 1, Len(stack) - 1) \o <<f, FirstHalf(f)>>
    /\ nSplits' = nSplits + 1
    /\ UNCHANGED <<utilVars, ransacVars, pc, m_rows, m_cols, image, image0,
                   minSectionSize, maxRecursions, doThinning, difference,
                   iteration, onPixels, result, nThinIter, nLeafFits>>

\* both halves returned: the results are merged and returned
TraceMerge ==
    /\ pc = "trace"
    /\ Top.stage = "merge"
    /\ Return(MergePolylines(Top.dest, Top.src))
    /\ UNCHANGED <<utilVars, ransacVars, m_rows, m_cols, image, image0,
                   minSectionSize, maxRecursions, doThinning, difference,
                   iteration, onPixels, nThinIter, nLeafFits, nSplits>>

(***************************************************************************)
(* Inputs.                                                                 *)
(***************************************************************************)
CrossImage == [rows |-> 3, cols |-> 3, on |-> {1, 3, 4, 5, 7}]

LShapeImage == [rows |-> 5, cols |-> 5, on |-> {2, 7, 10, 11, 12}]

LineImage == [rows |-> 3, cols |-> 7, on |-> 7..13]

\* a stroke with a stub: the middle column holds more on-pixels than its
\* neighbours
StubImage == [rows |-> 3, cols |-> 7, on |-> {3, 9, 10, 11}]

Scenarios == {CrossImage, LShapeImage, LineImage, StubImage}

\* the variables of fitSegment2D, unused
RansacIdle ==
    /\ fitPoints = <<>>
    /\ tolerance = 1
    /\ nIterations = 0
    /\ nSamples = 0
    /\ maxInliersDistance = 0
    /\ nIterations0 = 0
    /\ bestFitSegment = [isValid |-> FALSE]
    /\ smallestSumSquaredDistance = <<0, 1>>
    /\ iA = 0
    /\ iB = 0
    /\ slopePoints = <<>>
    /\ sampleN = 0
    /\ wasSampled = {}
    /\ sumSquaredDistance = <<0, 1>>
    /\ segmentPoints = <<>>
    /\ visited = <<>>
    /\ nAccepted = 0

\* the variables of the stand-alone calls, unused
UtilIdle ==
    /\ destPolylines = <<>>
    /\ srcPolylines = <<>>
    /\ srcEnd = 0
    /\ destIt = 0
    /\ merged = <<>>
    /\ dest0 = <<>>
    /\ src0 = <<>>
    /\ dropped = <<>>
    /\ points = <<>>
    /\ range = <<>>
    /\ range0 = <<>>
    /\ epsilon = 0
    /\ kept = 0
    /\ again = <<>>
    /\ keptAgain = 0

Setup(rows, cols, on, ms, mr, thin) ==
    /\ UtilIdle
    /\ RansacIdle
    /\ pc = "start"
    /\ m_rows = rows
    /\ m_cols = cols
    /\ image = BitsOf(rows * cols, on)
    /\ image0 = BitsOf(rows * cols, on)
    /\ minSectionSize = ms
    /\ maxRecursions = mr
    /\ doThinning = thin
    /\ difference = FALSE
    /\ iteration = FALSE
    /\ onPixels = <<>>
    /\ stack = <<>>
    /\ result = <<>>
    /\ nThinIter = 0
    /\ nLeafFits = 0
    /\ nSplits = 0

Init ==
    \/ \E rows \in 1..MaxRows, cols \in 1..MaxCols :
         \E on \in SubsetsUpTo(rows * cols, MaxOn) :
           \E ms \in MinSectionSizes, mr \in MaxRecursionValues,
              thin \in BOOLEAN :
             Setup(rows, cols, on, ms, mr, thin)
    \/ \E sc \in Scenarios :
         \E ms \in 0..MaxMinSectionSize, mr \in 0..MaxMaxRecursions,
            thin \in BOOLEAN :
           Setup(sc.rows, sc.cols, sc.on, ms, mr, thin)

Next ==
    \/ TooSmall
    \/ StartThinning
    \/ StartTracing
    \/ ThinIter
    \/ ThinExit
    \/ TraceEmpty
    \/ TraceLeaf
    \/ TraceSplit
    \/ TraceMerge

Spec == Init /\ [][Next]_vars

(***************************************************************************)
(* The leaf fitter on every image that fitPolylines hands to it whole: the *)
(* images with both sides below the split bound.                           *)
(***************************************************************************)
InitLeaf ==
    \E rows \in minSize..(MinSplitFloor - 1),
       cols \in minSize..(MinSplitFloor - 1) :
      \E on \in SUBSET (0..(rows * cols - 1)) :
        Setup(rows, cols, on, minSize, 0, FALSE)

NextLeaf ==
    \/ StartTracing
    \/ TraceEmpty
    \/ TraceLeaf

SpecLeaf == InitLeaf /\ [][NextLeaf]_vars

(***************************************************************************)
(* The thinner on images of few on-pixels and on images of few             *)
(* off-pixels.                                                             *)
(***************************************************************************)
InitThin ==
    \/ \E rows \in minSize..MaxThinSize, cols \in minSize..MaxThinSize :
         \E few \in SubsetsUpTo(rows * cols, MaxThinOn), dense \in BOOLEAN :
           Setup(rows, cols,
                 IF dense THEN (0..(rows * cols - 1)) \ few ELSE few,
                 minSize, 0, TRUE)
    \/ \E sc \in Scenarios : Setup(sc.rows, sc.cols, sc.on, minSize, 0, TRUE)

NextThin ==
    \/ StartThinning
    \/ ThinIter
    \/ ThinExit

SpecThin == InitThin /\ [][NextThin]_vars

\* thinImage is a plain loop: a pass that can run does run
SpecThinFair == SpecThin /\ WF_vars(NextThin)

(***************************************************************************)
(* mergePolylines called alone, pass by pass.                              *)
(***************************************************************************)
MergeReturnSrc ==
    /\ pc = "merge"
    /\ destPolylines = <<>>
    /\ merged' = srcPolylines
    /\ pc' = "merged"
    /\ UNCHANGED <<traceVars, ransacVars, destPolylines, srcPolylines,
                   srcEnd, destIt, dest0, src0, dropped, points, range,
                   range0, epsilon, kept, again, keptAgain>>

MergeReturnDest ==
    /\ pc = "merge"
    /\ destPolylines # <<>>
    /\ srcPolylines = <<>>
    /\ merged' = destPolylines
    /\ pc' = "merged"
    /\ UNCHANGED <<traceVars, ransacVars, destPolylines, srcPolylines,
                   srcEnd, destIt, dest0, src0, dropped, points, range,
                   range0, epsilon, kept, again, keptAgain>>

MergeBegin ==
    /\ pc = "merge"
    /\ destPolylines # <<>>
    /\ srcPolylines # <<>>
    /\ srcEnd' = Len(srcPolylines)
    /\ destIt' = 1
    /\ pc' = "mergeLoop"
    /\ UNCHANGED <<traceVars, ransacVars, destPolylines, srcPolylines,
                   merged, dest0, src0, dropped, points, range, range0,
                   epsilon, kept, again, keptAgain>>

\* one pass of the loop over destPolylines
MergePass ==
    /\ pc = "mergeLoop"
    /\ destIt <= Len(destPolylines)
    /\ LET one == MergeOne(destPolylines[destIt], srcPolylines, srcEnd)
       IN  /\ destPolylines' = [destPolylines EXCEPT ![destIt] = one.dest]
           /\ srcPolylines' = one.src
           /\ srcEnd' = one.srcEnd
           /\ dropped' = IF one.merged THEN Append(dropped, one.shared)
                                       ELSE dropped
    /\ destIt' = destIt + 1
    /\ UNCHANGED <<pc, traceVars, ransacVars, merged, dest0, src0, points,
                   range, range0, epsilon, kept, again, keptAgain>>

\* the unmerged sources are appended
MergeAppend ==
    /\ pc = "mergeLoop"
    /\ destIt > Len(destPolylines)
    /\ merged' = destPolylines \o SubSeq(srcPolylines, 1, srcEnd)
    /\ pc' = "merged"
    /\ UNCHANGED <<traceVars, ransacVars, destPolylines, srcPolylines,
                   srcEnd, destIt, dest0, src0, dropped, points, range,
                   range0, epsilon, kept, again, keptAgain>>

\* the sequences over 0..MaxLoc of length n in which every locator is at
\* most one above those before it: one input per pattern of equal locators
RECURSIVE SeqMax(_)
SeqMax(s) ==
    IF s = <<>> THEN -1 ELSE Max(Head(s), SeqMax(Tail(s)))

RECURSIVE Patterns(_)
Patterns(n) ==
    IF n = 0 THEN {<<>>}
    ELSE UNION {{Append(s, v) : v \in 0..Min(MaxLoc, SeqMax(s) + 1)} :
                  s \in Patterns(n - 1)}

\* the ways to write n as a sequence of polyline lengths, each 2 or more
RECURSIVE Compositions(_)
Compositions(n) ==
    IF n = 0 THEN {<<>>}
    ELSE UNION {{<<k>> \o c : c \in Compositions(n - k)} : k \in 2..n}

RECURSIVE Cut(_, _)
Cut(flat, lens) ==
    IF lens = <<>> THEN <<>>
    ELSE <<SubSeq(flat, 1, lens[1])>>
         \o Cut(SubSeq(flat, lens[1] + 1, Len(flat)), Tail(lens))

InitMerge ==
    \E n \in 0..MaxPixels :
      \E lens \in Compositions(n), flat \in Patterns(n) :
        \E nDest \in 0..Len(lens) :
          /\ pc = "merge"
          /\ destPolylines = SubSeq(Cut(flat, lens), 1, nDest)
          /\ srcPolylines = SubSeq(Cut(flat, lens), nDest + 1, Len(lens))
          /\ dest0 = destPolylines
          /\ src0 = srcPolylines
          /\ srcEnd = 0
          /\ destIt = 0
          /\ merged = <<>>
          /\ dropped = <<>>
          /\ points = <<>>
          /\ range = <<>>
          /\ range0 = <<>>
          /\ epsilon = 0
          /\ kept = 0
          /\ again = <<>>
          /\ keptAgain = 0
          /\ m_rows = 0
          /\ m_cols = 0
          /\ image = <<>>
          /\ image0 = <<>>
          /\ minSectionSize = 0
          /\ maxRecursions = 0
          /\ doThinning = FALSE
          /\ difference = FALSE
          /\ iteration = FALSE
          /\ onPixels = <<>>
          /\ stack = <<>>
          /\ result = <<>>
          /\ nThinIter = 0
          /\ nLeafFits = 0
          /\ nSplits = 0
          /\ RansacIdle

NextMerge ==
    \/ MergeReturnSrc
    \/ MergeReturnDest
    \/ MergeBegin
    \/ MergePass
    \/ MergeAppend

SpecMerge == InitMerge /\ [][NextMerge]_vars

(***************************************************************************)
(* FittingUtils: squared distances as exact fractions <<num, den>> with    *)
(* den > 0, and simplifyPolyline on a range of point identities whose      *)
(* coordinates are points[id].                                             *)
(***************************************************************************)
FracLess(p, q) == p[1] * q[2] < q[1] * p[2]

\* computeSquaredDistanceToPoint
computeSquaredDistanceToPoint(pointA, pointB) ==
    (pointA[1] - pointB[1]) * (pointA[1] - pointB[1])
    + (pointA[2] - pointB[2]) * (pointA[2] - pointB[2])

\* computeSquaredDistanceToSegment for pointA # pointB.  The projection's
\* x lies strictly between the ends' x never for a vertical segment (its x
\* is pointA's), for a horizontal one when the point's x does, otherwise
\* when the foot's parameter t = dot / len2 lies strictly between 0 and 1.
computeSquaredDistanceToSegment(point, pointA, pointB) ==
    LET dx == pointB[1] - pointA[1]
        dy == pointB[2] - pointA[2]
        dot == (point[1] - pointA[1]) * dx + (point[2] - pointA[2]) * dy
        len2 == dx * dx + dy * dy
        cross == (point[1] - pointA[1]) * dy - (point[2] - pointA[2]) * dx
        toEnds == Min(computeSquaredDistanceToPoint(point, pointA),
                      computeSquaredDistanceToPoint(point, pointB))
    IN  IF dx = 0 THEN <<toEnds, 1>>
        ELSE IF dy = 0
             THEN IF point[1] > Min(pointA[1], pointB[1])
                     /\ point[1] < Max(pointA[1], pointB[1])
                  THEN <<(point[2] - pointA[2]) * (point[2] - pointA[2]), 1>>
                  ELSE <<toEnds, 1>>
        ELSE IF 0 < dot /\ dot < len2 THEN <<cross * cross, len2>>
        ELSE <<toEnds, 1>>

SegmentDistance(arr, i, a, b) ==
    computeSquaredDistanceToSegment(points[arr[i]], points[arr[a]],
                                    points[arr[b]])

\* a plausible slip: <= in the comparator, the last largest wins
RECURSIVE MaxElement_Last(_, _, _, _, _)
MaxElement_Last(arr, a, b, from, largest) ==
    IF from >= b THEN largest
    ELSE MaxElement_Last(arr, a, b, from + 1,
                         IF FracLess(SegmentDistance(arr, from, a, b),
                                     SegmentDistance(arr, largest, a, b))
                         THEN largest ELSE from)

\* std::max_element over the positions from..(b - 1): the first largest
RECURSIVE MaxElement(_, _, _, _, _)
MaxElement(arr, a, b, from, largest) ==
    IF from >= b THEN largest
    ELSE MaxElement(arr, a, b, from + 1,
                    IF FracLess(SegmentDistance(arr, largest, a, b),
                                SegmentDistance(arr, from, a, b))
                    THEN from ELSE largest)

IterSwap(arr, i, j) == [arr EXCEPT ![i] = arr[j], ![j] = arr[i]]

\* a plausible slip: the kept points of the right part are not moved up
SwapLoop_Skip(arr, pointA, pt, pointB) == [arr |-> arr, ret |-> pointB]

\* while (pt != pointB) std::iter_swap(pointA++, pt++); return pointA
RECURSIVE SwapLoop(_, _, _, _)
SwapLoop(arr, pointA, pt, pointB) ==
    IF pt = pointB THEN [arr |-> arr, ret |-> pointA]
    ELSE SwapLoop(IterSwap(arr, pointA, pt), pointA + 1, pt + 1, pointB)

\* a plausible slip: the last point is not swapped to the second position
KeepEnds_NoSwap(arr, pointA, pointB) ==
    [arr |-> arr, ret |-> pointA + 2]

\* the else branch: only the first and the last point are kept
KeepEnds(arr, pointA, pointB) ==
    [arr |-> IterSwap(arr, pointB, pointA + 1), ret |-> pointA + 2]

\* simplifyPolyline(first, last, get2DCoords, epsilon) on the positions
\* first..(last - 1) of arr; ret is the returned position
RECURSIVE simplifyPolyline(_, _, _, _)
simplifyPolyline(arr, first, last, eps) ==
    LET pointA == first
        pointB == last - 1
    IN  IF pointB - pointA < 2 \/ points[arr[pointA]] = points[arr[pointB]]
           \/ eps <= 0
        THEN [arr |-> arr, ret |-> last]
        ELSE LET pointFurthest ==
                     MaxElement(arr, pointA, pointB, pointA + 2, pointA + 1)
             IN  IF FracLess(<<eps * eps, 1>>,
                             SegmentDistance(arr, pointFurthest, pointA,
                                             pointB))
                 THEN LET right == simplifyPolyline(arr, pointFurthest,
                                                    pointB + 1, eps)
                          left == simplifyPolyline(right.arr, pointA,
                                                   pointFurthest + 1, eps)
                      IN  SwapLoop(left.arr, left.ret, pointFurthest + 1,
                                   right.ret)
                 ELSE KeepEnds(arr, pointA, pointB)

\* one call on the whole range
Simplify ==
    /\ pc = "simplify"
    /\ LET call == simplifyPolyline(range, 1, Len(range) + 1, epsilon)
       IN  /\ range' = call.arr
           /\ kept' = call.ret
    /\ pc' = "simplified"
    /\ UNCHANGED <<traceVars, ransacVars, destPolylines, srcPolylines,
                   srcEnd, destIt, merged, dest0, src0, dropped, points,
                   range0, epsilon, again, keptAgain>>

\* a second call with the same epsilon on the prefix the first call kept
SimplifyAgain ==
    /\ pc = "simplified"
    /\ LET call == simplifyPolyline(range, 1, kept, epsilon)
       IN  /\ again' = call.arr
           /\ keptAgain' = call.ret
    /\ pc' = "simplifiedAgain"
    /\ UNCHANGED <<traceVars, ransacVars, destPolylines, srcPolylines,
                   srcEnd, destIt, merged, dest0, src0, dropped, points,
                   range, range0, epsilon, kept>>

RECURSIVE SeqsUpTo(_, _)
SeqsUpTo(S, n) ==
    IF n = 0 THEN {<<>>}
    ELSE LET shorter == SeqsUpTo(S, n - 1)
         IN  shorter \cup {Append(s, x) : s \in shorter, x \in S}

\* the zig-zag of the documentation's example
ZigZag == <<<<0, 0>>, <<1, 10>>, <<2, 0>>, <<3, 10>>, <<4, 0>>>>

ZigZagEpsilons == {5, 50}

SetupSimplify(pts, eps) ==
    /\ pc = "simplify"
    /\ points = pts
    /\ range = [i \in 1..Len(pts) |-> i]
    /\ range0 = [i \in 1..Len(pts) |-> i]
    /\ epsilon = eps
    /\ kept = 0
    /\ again = <<>>
    /\ keptAgain = 0
    /\ destPolylines = <<>>
    /\ srcPolylines = <<>>
    /\ srcEnd = 0
    /\ destIt = 0
    /\ merged = <<>>
    /\ dest0 = <<>>
    /\ src0 = <<>>
    /\ dropped = <<>>
    /\ m_rows = 0
    /\ m_cols = 0
    /\ image = <<>>
    /\ image0 = <<>>
    /\ minSectionSize = 0
    /\ maxRecursions = 0
    /\ doThinning = FALSE
    /\ difference = FALSE
    /\ iteration = FALSE
    /\ onPixels = <<>>
    /\ stack = <<>>
    /\ result = <<>>
    /\ nThinIter = 0
    /\ nLeafFits = 0
    /\ nSplits = 0
    /\ RansacIdle

InitSimplify ==
    \/ \E pts \in SeqsUpTo(Coordinates \X Coordinates, MaxLen),
          eps \in Epsilons :
         Len(pts) >= 1 /\ SetupSimplify(pts, eps)
    \/ \E eps \in ZigZagEpsilons : SetupSimplify(ZigZag, eps)

NextSimplify ==
    \/ Simplify
    \/ SimplifyAgain

SpecRDP == InitSimplify /\ [][NextSimplify]_vars

(***************************************************************************)
(* SegmentFitting::fitSegment2D.  Input points lie on an integer grid; a   *)
(* computed point is <<xNum, yNum, den>> and a computed distance a         *)
(* fraction <<num, den>> in lowest terms; <<1, 0>> is infinity.  Every     *)
(* outcome of a random draw is a choice of the model.                      *)
(***************************************************************************)
RECURSIVE GCD(_, _)
GCD(a, b) == IF b = 0 THEN a ELSE GCD(b, a % b)

Frac(num, den) ==
    IF den = 0 THEN <<1, 0>>
    ELSE LET g == GCD(Abs(num), den) IN <<num \div g, den \div g>>

Infinity == <<1, 0>>

FracAdd(p, q) == Frac(p[1] * q[2] + q[1] * p[2], p[2] * q[2])

FracMin(p, q) == IF FracLess(q, p) THEN q ELSE p

\* The tolerance of fuzzyCompare (1e-9) in grid units is 1 on a grid of
\* pitch 1e-9 or more, where equal means identical, and FineTolerance on a
\* grid of pitch 5e-10, where neighbours compare equal.
FineTolerance == 2

\* fuzzyCompare(floatA, floatB, eps = 1e-9) on grid coordinates
fuzzyCompare(floatA, floatB) == Abs(floatA - floatB) < tolerance

arePointsEqual(pointA, pointB) ==
    fuzzyCompare(pointA[1], pointB[1]) /\ fuzzyCompare(pointA[2], pointB[2])

\* computeSlope(pointA, pointB) is NaN
SlopeIsNaN(pointA, pointB) == arePointsEqual(pointA, pointB)

\* computePointProjectionOnLine(point, slope, offset) for the line through
\* pointA and pointB: slope 0 gives (x, offset), an infinite slope
\* (offset, y), any other slope the foot of the perpendicular, which is
\* pointA + (dot / len2) * (pointB - pointA).  A nonzero slope of grid
\* points is no fuzzy zero.
computePointProjectionOnLine(point, pointA, pointB) ==
    LET dx == pointB[1] - pointA[1]
        dy == pointB[2] - pointA[2]
        dot == (point[1] - pointA[1]) * dx + (point[2] - pointA[2]) * dy
        len2 == dx * dx + dy * dy
    IN  IF dx # 0 /\ dy = 0 THEN <<point[1], pointA[2], 1>>
        ELSE IF dx = 0 THEN <<pointA[1], point[2], 1>>
        ELSE <<pointA[1] * len2 + dot * dx, pointA[2] * len2 + dot * dy,
               len2>>

\* computeSquaredDistanceToPoint(point, pointOnSegment)
ProjectionDistance(point, proj) ==
    Frac((point[1] * proj[3] - proj[1]) * (point[1] * proj[3] - proj[1])
         + (point[2] * proj[3] - proj[2]) * (point[2] * proj[3] - proj[2]),
         proj[3] * proj[3])

\* maxSquaredDistance
maxSquaredDistance ==
    IF maxInliersDistance # 0
    THEN <<maxInliersDistance * maxInliersDistance, 1>>
    ELSE Infinity

XLess(p1, p2) == p1[1] * p2[3] < p2[1] * p1[3]

\* std::minmax_element by x: the first smallest and the last largest
RECURSIVE MinElementX(_, _, _)
MinElementX(pts, from, smallest) ==
    IF from > Len(pts) THEN smallest
    ELSE MinElementX(pts, from + 1,
                     IF XLess(pts[from], pts[smallest]) THEN from
                                                        ELSE smallest)

RECURSIVE MaxElementX(_, _, _)
MaxElementX(pts, from, largest) ==
    IF from > Len(pts) THEN largest
    ELSE MaxElementX(pts, from + 1,
                     IF XLess(pts[from], pts[largest]) THEN largest
                                                       ELSE from)

nPoints == Len(fitPoints)

\* Segment2D<TFloat>{}: value-initialised
InvalidSegment ==
    [isValid |-> FALSE, begin |-> <<0, 0, 1>>, end |-> <<0, 0, 1>>,
     mse |-> <<0, 1>>]

\* what an indeterminate TFloat may read as
IndeterminateFloats == {<<0, 1>>, <<1, 1>>}

\* Segment2D<TFloat> bestFitSegment; is default-initialised: the pairs are
\* value-initialised by std::pair's constructor, m_mse and m_isValid are
\* indeterminate, so a read of them gives any value
UninitialisedSegments ==
    {[isValid |-> b, begin |-> <<0, 0, 1>>, end |-> <<0, 0, 1>>, mse |-> f] :
        b \in BOOLEAN, f \in IndeterminateFloats}

\* the locals of the loop body end with each iteration
EndOfIteration ==
    /\ iA' = 0
    /\ iB' = 0
    /\ slopePoints' = <<>>
    /\ sampleN' = 0
    /\ wasSampled' = {}
    /\ sumSquaredDistance' = <<0, 1>>
    /\ segmentPoints' = <<>>
    /\ visited' = <<>>

\* fewer than 2 points: the value-initialised segment is returned
FitReject ==
    /\ pc = "fit"
    /\ nPoints < 2
    /\ bestFitSegment' = InvalidSegment
    /\ pc' = "fitted"
    /\ UNCHANGED <<traceVars, utilVars, fitPoints, tolerance, nIterations,
                   nSamples, maxInliersDistance, nIterations0,
                   smallestSumSquaredDistance, iA, iB, slopePoints, sampleN,
                   wasSampled, sumSquaredDistance, segmentPoints, visited,
                   nAccepted>>

\* a plausible slip: zero iterations are left as they are
CoercedIterations_Zero(requested) == requested

\* if (nIterations == 0) nIterations = 1
CoercedIterations(requested) == IF requested = 0 THEN 1 ELSE requested

\* the arguments are coerced and the locals declared; bestFitSegment stays
\* without a value until an iteration assigns it
FitBegin ==
    /\ pc = "fit"
    /\ nPoints >= 2
    /\ nIterations' = CoercedIterations(nIterations)
    /\ nSamples' = IF nSamples = 0 THEN nPoints ELSE Min(nSamples, nPoints)
    /\ smallestSumSquaredDistance' = Infinity
    /\ pc' = "iterate"
    /\ UNCHANGED <<traceVars, utilVars, fitPoints, tolerance, bestFitSegment,
                   maxInliersDistance, nIterations0, iA, iB, slopePoints,
                   sampleN, wasSampled, sumSquaredDistance, segmentPoints,
                   visited, nAccepted>>

\* while (nIterations-- > 0) is over: bestFitSegment is returned, and read
\* as any value where no iteration has assigned it
FitReturn ==
    /\ pc = "iterate"
    /\ nIterations = 0
    /\ IF nAccepted = 0
       THEN bestFitSegment' \in UninitialisedSegments
       ELSE bestFitSegment' = bestFitSegment
    /\ pc' = "fitted"
    /\ UNCHANGED <<traceVars, utilVars, fitPoints, tolerance, nIterations,
                   nSamples, maxInliersDistance, nIterations0,
                   smallestSumSquaredDistance, iA, iB, slopePoints, sampleN,
                   wasSampled, sumSquaredDistance, segmentPoints, visited,
                   nAccepted>>

\* an iteration draws two points that are equal: the slope is NaN, continue
DrawEqualPair ==
    /\ pc = "iterate"
    /\ nIterations > 0
    /\ \E a, b \in 0..(nPoints - 1) :
         /\ a # b
         /\ SlopeIsNaN(fitPoints[a + 1], fitPoints[b + 1])
    /\ nIterations' = nIterations - 1
    /\ EndOfIteration
    /\ UNCHANGED <<pc, traceVars, utilVars, fitPoints, tolerance, nSamples,
                   maxInliersDistance, nIterations0, bestFitSegment,
                   smallestSumSquaredDistance, nAccepted>>

\* an iteration draws two points with a slope and enters the sampling loop
DrawPair ==
    /\ pc = "iterate"
    /\ nIterations > 0
    /\ \E a, b \in 0..(nPoints - 1) :
         /\ a # b
         /\ ~SlopeIsNaN(fitPoints[a + 1], fitPoints[b + 1])
         /\ iA' = a
         /\ iB' = b
         /\ slopePoints' = <<fitPoints[a + 1], fitPoints[b + 1]>>
         /\ segmentPoints' = <<Append(fitPoints[a + 1], 1),
                               Append(fitPoints[b + 1], 1)>>
    /\ nIterations' = nIterations - 1
    /\ sumSquaredDistance' = <<0, 1>>
    /\ sampleN' = nPoints - nSamples
    /\ wasSampled' = {}
    /\ visited' = <<>>
    /\ pc' = "sample"
    /\ UNCHANGED <<traceVars, utilVars, fitPoints, tolerance, nSamples,
                   maxInliersDistance, nIterations0, bestFitSegment,
                   smallestSumSquaredDistance, nAccepted>>

\* a plausible slip: a drawn index is taken as it is
FloydIndex_NoReplace(drawn) == drawn

\* i = (wasSampled.at(i)) ? n : i
FloydIndex(drawn) == IF drawn \in wasSampled THEN sampleN ELSE drawn

\* one pass of the sampling loop (Robert Floyd's algorithm)
SampleStep ==
    /\ pc = "sample"
    /\ sampleN < nPoints
    /\ FracLess(sumSquaredDistance, smallestSumSquaredDistance)
    /\ \E drawn \in 0..sampleN :
         LET i == FloydIndex(drawn)
             point == fitPoints[i + 1]
             pointOnSegment ==
                 computePointProjectionOnLine(point, slopePoints[1],
                                              slopePoints[2])
             squaredDistance == ProjectionDistance(point, pointOnSegment)
         IN  /\ wasSampled' = wasSampled \cup {i}
             /\ visited' = Append(visited, i)
             /\ sumSquaredDistance' =
                    FracAdd(sumSquaredDistance,
                            FracMin(squaredDistance, maxSquaredDistance))
             /\ segmentPoints' =
                    IF ~FracLess(maxSquaredDistance, squaredDistance)
                    THEN Append(segmentPoints, pointOnSegment)
                    ELSE segmentPoints
    /\ sampleN' = sampleN + 1
    /\ UNCHANGED <<pc, traceVars, utilVars, fitPoints, tolerance,
                   nIterations, nSamples, maxInliersDistance, nIterations0,
                   bestFitSegment, smallestSumSquaredDistance, iA, iB,
                   slopePoints, nAccepted>>

\* the loop is over and the sum is no improvement: continue
IterationDiscard ==
    /\ pc = "sample"
    /\ ~(sampleN < nPoints
         /\ FracLess(sumSquaredDistance, smallestSumSquaredDistance))
    /\ ~FracLess(sumSquaredDistance, smallestSumSquaredDistance)
    /\ EndOfIteration
    /\ pc' = "iterate"
    /\ UNCHANGED <<traceVars, utilVars, fitPoints, tolerance, nIterations,
                   nSamples, maxInliersDistance, nIterations0, bestFitSegment,
                   smallestSumSquaredDistance, nAccepted>>

\* the loop is over and the sum is the smallest so far
IterationAccept ==
    /\ pc = "sample"
    /\ ~(sampleN < nPoints
         /\ FracLess(sumSquaredDistance, smallestSumSquaredDistance))
    /\ FracLess(sumSquaredDistance, smallestSumSquaredDistance)
    /\ smallestSumSquaredDistance' = sumSquaredDistance
    /\ bestFitSegment' =
           [isValid |-> TRUE,
            begin |-> segmentPoints[MinElementX(segmentPoints, 2, 1)],
            end |-> segmentPoints[MaxElementX(segmentPoints, 2, 1)],
            mse |-> Frac(sumSquaredDistance[1],
                         sumSquaredDistance[2] * nSamples)]
    /\ nAccepted' = nAccepted + 1
    /\ EndOfIteration
    /\ pc' = "iterate"
    /\ UNCHANGED <<traceVars, utilVars, fitPoints, tolerance, nIterations,
                   nSamples, maxInliersDistance, nIterations0>>

\* collinear points on a non-vertical line
CollinearPoints == <<<<0, 0>>, <<1, 1>>, <<2, 2>>, <<3, 3>>, <<4, 4>>>>

\* points on no common line, two of them on a vertical line
ScatterPoints == <<<<0, 0>>, <<2, 1>>, <<1, 1>>, <<2, 0>>>>

FitScenarios == {CollinearPoints, ScatterPoints}

SetupFit(pts, tol, iters, samples, dist) ==
    /\ pc = "fit"
    /\ fitPoints = pts
    /\ tolerance = tol
    /\ nIterations = iters
    /\ nIterations0 = iters
    /\ nSamples = samples
    /\ maxInliersDistance = dist
    /\ bestFitSegment = [isValid |-> FALSE]
    /\ smallestSumSquaredDistance = <<0, 1>>
    /\ iA = 0
    /\ iB = 0
    /\ slopePoints = <<>>
    /\ sampleN = 0
    /\ wasSampled = {}
    /\ sumSquaredDistance = <<0, 1>>
    /\ segmentPoints = <<>>
    /\ visited = <<>>
    /\ nAccepted = 0
    /\ UtilIdle
    /\ m_rows = 0
    /\ m_cols = 0
    /\ image = <<>>
    /\ image0 = <<>>
    /\ minSectionSize = 0
    /\ maxRecursions = 0
    /\ doThinning = FALSE
    /\ difference = FALSE
    /\ iteration = FALSE
    /\ onPixels = <<>>
    /\ stack = <<>>
    /\ result = <<>>
    /\ nThinIter = 0
    /\ nLeafFits = 0
    /\ nSplits = 0

InitFit ==
    \/ \E pts \in SeqsUpTo(FitCoordinates, MaxFitPoints),
          iters \in 0..MaxIterations :
         SetupFit(pts, 1, iters, 0, 0)
    \/ \E pts \in FitCoordinates \X FitCoordinates,
          iters \in 0..MaxIterations :
         SetupFit(pts, FineTolerance, iters, 0, 0)
    \/ \E pts \in FitScenarios, iters \in 1..MaxIterations,
          samples \in FitSamples, dist \in InlierDistances :
         SetupFit(pts, 1, iters, samples, dist)

NextFit ==
    \/ FitReject
    \/ FitBegin
    \/ FitReturn
    \/ DrawEqualPair
    \/ DrawPair
    \/ SampleStep
    \/ IterationDiscard
    \/ IterationAccept

SpecRansac == InitFit /\ [][NextFit]_vars

(***************************************************************************)
(* Properties of the entry point fitPolylines.                             *)
(***************************************************************************)
IsScenario(sc) ==
    /\ m_rows = sc.rows
    /\ m_cols = sc.cols
    /\ image0 = BitsOf(sc.rows * sc.cols, sc.on)

\* the vertices of every returned polyline
Vertices == UNION {{result[i][j] : j \in 1..Len(result[i])} :
                     i \in 1..Len(result)}

IsOnPixel(v) == image[Find(v[1], v[2])] # 0

\* C1: an image with fewer than 3 rows or fewer than 3 columns gets the
\* empty polyline set, whatever its pixels and the three parameters are;
\* the thinner and the tracer never run and the image is left as it was.
C1_TooSmallReturnsEmpty ==
    (m_rows < 3 \/ m_cols < 3) =>
        /\ pc \in {"start", "done"}
        /\ pc = "done" => result = <<>>
        /\ image = image0
        /\ nThinIter = 0
        /\ nLeafFits = 0
        /\ nSplits = 0
        /\ stack = <<>>

C1_Witness ==
    /\ pc = "done"
    /\ m_rows < 3
    /\ m_cols >= 3
    /\ OnCount(image0) > 0
    /\ doThinning
    /\ maxRecursions # 0

\* C2: an image of at least 3x3 whose pixels are all off gets the empty
\* polyline set for every minSectionSize, maxRecursions and doThinning:
\* the root section is found empty, nothing is split or leaf-fitted.
C2_AllOffReturnsEmpty ==
    (pc = "done" /\ m_rows >= 3 /\ m_cols >= 3 /\ OnCount(image0) = 0) =>
        /\ result = <<>>
        /\ nLeafFits = 0
        /\ nSplits = 0

C2_Witness ==
    /\ pc = "done"
    /\ m_rows >= 5
    /\ m_cols >= 3
    /\ OnCount(image0) = 0
    /\ doThinning
    /\ nThinIter = 1
    /\ result = <<>>

\* C6: every polyline the tracer returns has at least two vertices and no
\* pixel locator twice.
C6_PolylinesDistinct ==
    pc = "done" =>
        \A i \in 1..Len(result) :
            /\ Len(result[i]) >= 2
            /\ \A j, k \in 1..Len(result[i]) :
                   j # k => result[i][j] # result[i][k]

\* C7 as claimed: on the 5x5 L-shape with the default parameters thinning
\* changes nothing, every returned vertex is an on-pixel, (2,2) is a vertex
\* and the arm tips (0,2) and (2,0) are vertices.
C7_LShapeTraced ==
    (/\ pc = "done"
     /\ IsScenario(LShapeImage)
     /\ minSectionSize = 3
     /\ maxRecursions = 0
     /\ doThinning) =>
        /\ image = image0
        /\ \A v \in Vertices : IsOnPixel(v)
        /\ <<2, 2>> \in Vertices
        /\ <<0, 2>> \in Vertices
        /\ <<2, 0>> \in Vertices

\* C7 as amended: on the 5x5 L-shape with the default parameters thinning
\* changes nothing and three polylines are returned: (3,3),(2,2),(1,1)
\* glued at the junction (2,2), and one two-vertex polyline per arm from the
\* arm's middle pixel to the centre of its 3x3 section, (1,2),(1,3) and
\* (2,1),(3,1).  The tips are no vertices; four vertices are off-pixels.
C7_LShapeResult ==
    (/\ pc = "done"
     /\ IsScenario(LShapeImage)
     /\ minSectionSize = 3
     /\ maxRecursions = 0
     /\ doThinning) =>
        /\ image = image0
        /\ result = << <<<<3, 3>>, <<2, 2>>, <<1, 1>>>>,
                       <<<<1, 2>>, <<1, 3>>>>,
                       <<<<2, 1>>, <<3, 1>>>> >>
        /\ {v \in Vertices : IsOnPixel(v)} = {<<2, 2>>, <<1, 2>>, <<2, 1>>}

C7_Witness ==
    /\ pc = "done"
    /\ IsScenario(LShapeImage)
    /\ minSectionSize = 3
    /\ maxRecursions = 0
    /\ doThinning
    /\ nThinIter = 1
    /\ nSplits = 3
    /\ nLeafFits = 4
    /\ Len(result) = 3

\* C8: on the 3x3 cross with thinning, minSectionSize 3 and maxRecursions 0
\* exactly four two-vertex polylines are returned, one starting at each of
\* (0,1), (1,2), (2,1), (1,0), and all four end at (1,1).
C8_CrossResult ==
    (/\ pc = "done"
     /\ IsScenario(CrossImage)
     /\ minSectionSize = 3
     /\ maxRecursions = 0
     /\ doThinning) =>
        /\ Len(result) = 4
        /\ \A i \in 1..4 : Len(result[i]) = 2 /\ result[i][2] = <<1, 1>>
        /\ {result[i][1] : i \in 1..4}
               = {<<0, 1>>, <<1, 2>>, <<2, 1>>, <<1, 0>>}

C8_Witness ==
    /\ pc = "done"
    /\ IsScenario(CrossImage)
    /\ minSectionSize = 3
    /\ maxRecursions = 0
    /\ doThinning
    /\ nLeafFits = 1
    /\ Len(result) = 4

\* C9: on the 3x7 image whose middle row alone is on, without thinning and
\* with any minSectionSize of 5 or more, exactly one polyline is returned
\* and it contains both (1,0) and (1,6).
C9_LineResult ==
    (/\ pc = "done"
     /\ IsScenario(LineImage)
     /\ minSectionSize >= 5
     /\ ~doThinning) =>
        /\ Len(result) = 1
        /\ \E j \in 1..Len(result[1]) : result[1][j] = <<1, 0>>
        /\ \E j \in 1..Len(result[1]) : result[1][j] = <<1, 6>>

\* the line was split once and its two halves were merged
C9_Witness ==
    /\ pc = "done"
    /\ IsScenario(LineImage)
    /\ minSectionSize = 5
    /\ maxRecursions = 0
    /\ ~doThinning
    /\ nSplits = 1
    /\ nLeafFits = 2
    /\ Len(result) = 1
    /\ Len(result[1]) = 3

(***************************************************************************)
(* Properties of mergePolylines.                                           *)
(***************************************************************************)
\* how often locator px occurs in a set of polylines
RECURSIVE Occurrences(_, _)
Occurrences(polylines, px) ==
    IF polylines = <<>> THEN 0
    ELSE Cardinality({j \in 1..Len(Head(polylines)) : Head(polylines)[j] = px})
         + Occurrences(Tail(polylines), px)

\* C3: the locators of the output are those of D and S together less one
\* occurrence of the shared endpoint per performed merge, every merge
\* makes one polyline of two, and D = {[a,b,c]}, S = {[c,d,e]} gives the
\* single polyline [a,b,c,d,e].
C3_MergeConservesPixels ==
    pc = "merged" =>
        /\ \A px \in 0..MaxLoc :
               Occurrences(merged, px) + Occurrences(<<dropped>>, px)
                   = Occurrences(dest0, px) + Occurrences(src0, px)
        /\ Len(merged) + Len(dropped) = Len(dest0) + Len(src0)
        /\ (dest0 = << <<0, 1, 2>> >> /\ src0 = << <<2, 3, 4>> >>)
               => merged = << <<0, 1, 2, 3, 4>> >>

C3_Witness ==
    /\ pc = "merged"
    /\ dest0 = << <<0, 1, 2>> >>
    /\ src0 = << <<2, 3, 4>> >>
    /\ dropped = <<2>>
    /\ merged = << <<0, 1, 2, 3, 4>> >>

(***************************************************************************)
(* Properties of thinImage.                                                *)
(***************************************************************************)
IsBorder(px) ==
    \/ Coords(px)[1] = 0
    \/ Coords(px)[1] = m_rows - 1
    \/ Coords(px)[2] = 0
    \/ Coords(px)[2] = m_cols - 1

\* C4: every pass of the thinner's loop leaves fewer on-pixels or is the
\* last pass (it flagged nothing, so the loop exits), and the loop exits
\* on every image.
C4_ThinDecreasesOrExits ==
    /\ [][(pc = "thin" /\ difference) =>
              \/ OnCount(image') < OnCount(image)
              \/ (~difference' /\ image' = image)]_vars
    /\ [][(pc = "thin" /\ ~difference) => pc' = "trace"]_vars
    /\ <>(pc = "trace")

\* three passes: two that cleared pixels and the last one
C4_Witness ==
    /\ pc = "trace"
    /\ nThinIter >= 3
    /\ OnCount(image) < OnCount(image0)
    /\ ~difference

\* C5: the thinner only turns on-pixels off, and never a border pixel.
C5_ThinOnlyClearsInterior ==
    pc \in {"thin", "trace"} =>
        \A px \in DOMAIN image :
            /\ image[px] <= image0[px]
            /\ IsBorder(px) => image[px] = image0[px]

C5_Witness ==
    /\ pc = "trace"
    /\ nThinIter >= 2
    /\ image # image0
    /\ \E px \in DOMAIN image : IsBorder(px) /\ image[px] = 1
    /\ \E px \in DOMAIN image : image0[px] = 0

(***************************************************************************)
(* Properties of simplifyPolyline.                                         *)
(***************************************************************************)
\* C10: with epsilon > 0 on a range of two or more points, the prefix before
\* the returned position holds the kept points in their original order,
\* begins with the original first point and ends with the original last
\* point; the call only permutes the range.
C10_SimplifyKeepsOrderAndEnds ==
    (pc = "simplified" /\ epsilon > 0 /\ Len(range0) >= 2) =>
        /\ kept \in 3..(Len(range) + 1)
        /\ \A i, j \in 1..(kept - 1) : i < j => range[i] < range[j]
        /\ range[1] = range0[1]
        /\ range[kept - 1] = range0[Len(range0)]
        /\ {range[i] : i \in 1..Len(range)} = 1..Len(range0)
        /\ Len(range) = Len(range0)

\* a call that split twice: two inner points kept, one dropped
C10_Witness ==
    /\ pc = "simplified"
    /\ epsilon > 0
    /\ Len(range0) = MaxLen
    /\ kept = MaxLen
    /\ range # range0

\* C11: a second call with the same epsilon on the kept prefix returns the
\* end of the prefix and leaves the points and their order as they were.
C11_SimplifyIdempotent ==
    pc = "simplifiedAgain" =>
        /\ keptAgain = kept
        /\ again = range

\* the first call dropped a point and kept an inner one
C11_Witness ==
    /\ pc = "simplifiedAgain"
    /\ epsilon > 0
    /\ Len(range0) = MaxLen
    /\ kept = MaxLen
    /\ keptAgain = kept
    /\ again = range

\* C12 as claimed: the zig-zag with epsilon 5 keeps all five points in
\* their order.
C12_ZigZagKeepsAll ==
    (pc = "simplified" /\ points = ZigZag /\ epsilon = 5) =>
        /\ kept = Len(range) + 1
        /\ range = range0

\* C12 as amended: the zig-zag with epsilon 5 keeps (0,0), (1,10) and (4,0)
\* in this order; (2,0) and (3,10), at squared distance 400/109 from the
\* segment (1,10)-(4,0), are discarded.
C12_ZigZagResult ==
    (pc = "simplified" /\ points = ZigZag /\ epsilon = 5) =>
        /\ kept = 4
        /\ SubSeq(range, 1, 3) = <<1, 2, 5>>
        /\ {range[4], range[5]} = {3, 4}

C12_Witness ==
    /\ pc = "simplified"
    /\ points = ZigZag
    /\ epsilon = 5
    /\ kept = 4
    /\ points[range[2]] = <<1, 10>>

(***************************************************************************)
(* Properties of fitSegment2D.                                             *)
(***************************************************************************)

\* the projected point is the grid point
IsPoint(proj, point) ==
    /\ proj[1] = point[1] * proj[3]
    /\ proj[2] = point[2] * proj[3]

PairwiseDistinct(pts) ==
    \A i, j \in 1..Len(pts) : i # j => pts[i] # pts[j]

\* all points on one line that is not vertical
OnNonVerticalLine(pts) ==
    /\ \A i, j \in 1..Len(pts) : i # j => pts[i][1] # pts[j][1]
    /\ \A i, j, k \in 1..Len(pts) :
         (pts[j][1] - pts[i][1]) * (pts[k][2] - pts[i][2])
             = (pts[k][1] - pts[i][1]) * (pts[j][2] - pts[i][2])

SmallestX(pts) ==
    CHOOSE p \in {pts[i] : i \in 1..Len(pts)} :
        \A i \in 1..Len(pts) : p[1] <= pts[i][1]

LargestX(pts) ==
    CHOOSE p \in {pts[i] : i \in 1..Len(pts)} :
        \A i \in 1..Len(pts) : p[1] >= pts[i][1]

\* C13: two or more pairwise distinct collinear points on a non-vertical
\* line, fitted with nIterations >= 1 and all points as samples, give a
\* valid segment with mean squared error 0 from the point of smallest x to
\* the point of largest x, whatever the draws are.
C13_CollinearFit ==
    (/\ pc = "fitted"
     /\ nPoints >= 2
     /\ PairwiseDistinct(fitPoints)
     /\ OnNonVerticalLine(fitPoints)
     /\ nIterations0 >= 1
     /\ nSamples = nPoints)
    => /\ bestFitSegment.isValid
       /\ bestFitSegment.mse = <<0, 1>>
       /\ IsPoint(bestFitSegment.begin, SmallestX(fitPoints))
       /\ IsPoint(bestFitSegment.end, LargestX(fitPoints))

\* no two points that arePointsEqual takes for equal
NoEqualPair(pts) ==
    \A i, j \in 1..Len(pts) : i # j => ~arePointsEqual(pts[i], pts[j])

\* C14: with fewer than 2 points the returned segment has a false validity
\* flag and no iteration has run; with nIterations = 0 and 2 or more points
\* the call runs one iteration as it does with nIterations = 1, which sets
\* the segment whenever the drawn points have a slope.
C14_FewPointsOrZeroIterations ==
    /\ (pc = "fitted" /\ nPoints < 2)
       => /\ ~bestFitSegment.isValid
          /\ nIterations = nIterations0
          /\ nAccepted = 0
          /\ visited = <<>>
    /\ (pc \in {"iterate", "sample"} /\ nIterations0 = 0)
       => nIterations + (IF pc = "sample" THEN 1 ELSE 0) + nAccepted <= 1
    /\ (pc = "fitted" /\ nPoints >= 2 /\ nIterations0 \in {0, 1})
       => /\ nIterations = 0
          /\ nAccepted <= 1
          /\ NoEqualPair(fitPoints)
             => (nAccepted = 1 /\ bestFitSegment.isValid)

C14_Witness ==
    /\ pc = "fitted"
    /\ nIterations0 = 0
    /\ nPoints = MaxFitPoints
    /\ nAccepted = 1
    /\ bestFitSegment.isValid
    /\ bestFitSegment.mse # <<0, 1>>

\* C20: within one iteration the sampling loop never visits a point index
\* twice and only visits indices of [0, nPoints); an iteration whose loop
\* runs to its end (n = nPoints, no early exit on the running sum) has
\* visited exactly nSamples indices.
C20_FloydSamplesDistinct ==
    pc = "sample"
    => /\ \A j, k \in 1..Len(visited) : j # k => visited[j] # visited[k]
       /\ \A j \in 1..Len(visited) : visited[j] \in 0..(nPoints - 1)
       /\ wasSampled = {visited[j] : j \in 1..Len(visited)}
       /\ sampleN = nPoints => Len(visited) = nSamples

C20_Witness ==
    /\ pc = "sample"
    /\ sampleN = nPoints
    /\ nPoints = Len(CollinearPoints)
    /\ nSamples = 3
    /\ visited = <<1, 3, 0>>

(***************************************************************************)
(* Properties of fitSegments.                                              *)
(***************************************************************************)

\* the frame position that follows position i by n steps clockwise
Clockwise(frame, i, n) == ((i - 1 + n) % Len(frame)) + 1

\* the first positions of the maximal cyclic runs of on-pixels
RunStarts(frame) ==
    {i \in 1..Len(frame) :
        /\ image[frame[i]] # 0
        /\ image[frame[Clockwise(frame, i, Len(frame) - 1)]] = 0}

RunLength(frame, i) ==
    CHOOSE n \in 1..Len(frame) :
        /\ \A j \in 0..(n - 1) : image[frame[Clockwise(frame, i, j)]] # 0
        /\ image[frame[Clockwise(frame, i, n)]] = 0

\* the pixel at offset floor(runLength / 2) of the run that starts at i
RunMid(frame, i) == frame[Clockwise(frame, i, RunLength(frame, i) \div 2)]

IsMixed(frame) ==
    /\ \E i \in 1..Len(frame) : image[frame[i]] # 0
    /\ \E i \in 1..Len(frame) : image[frame[i]] = 0

\* the section of the activation on top is about to go to fitSegments
AtLeaf ==
    /\ pc = "trace"
    /\ stack # <<>>
    /\ Top.stage = "call"
    /\ ~IsEmpty(Top.r0, Top.c0, Top.rows, Top.cols)
    /\ IsLeaf(Top.rows, Top.cols, Top.iter)

\* C15: for a frame of on and off pixels the scan gives one segment for
\* each maximal cyclic run of on-pixels, from the pixel at offset
\* floor(runLength / 2) of the run, wherever the first off-pixel is.
C15_OneSegmentPerRun ==
    (AtLeaf /\ IsMixed(Frame(Top.r0, Top.c0, Top.rows, Top.cols)))
    => LET frame == Frame(Top.r0, Top.c0, Top.rows, Top.cols)
           segments == Segments(Top.r0, Top.c0, Top.rows, Top.cols)
       IN  /\ Len(segments) = Cardinality(RunStarts(frame))
           /\ {segments[i][1] : i \in 1..Len(segments)}
                  = {RunMid(frame, i) : i \in RunStarts(frame)}

\* C16: a leaf whose frame has exactly one maximal run of on-pixels gives
\* the one polyline from the middle of the run to the centre pixel of the
\* section; no intersection is estimated for fewer than 3 segments.  Stated
\* for an image that is a leaf as a whole.
C16_OneRunToCenter ==
    LET frame == Frame(0, 0, m_rows, m_cols)
    IN  (/\ pc = "done"
         /\ ~IsTooSmall
         /\ ~doThinning
         /\ IsLeaf(m_rows, m_cols, 0)
         /\ IsMixed(frame)
         /\ Cardinality(RunStarts(frame)) = 1)
        => result = <<<<Coords(RunMid(frame, CHOOSE i \in RunStarts(frame) :
                                                 TRUE)),
                        Coords(SectionCenter(0, 0, m_rows, m_cols))>>>>

(***************************************************************************)
(* Properties of the recursion of fitPolylines.                            *)
(***************************************************************************)

\* the activations that have split their section
IsSplit(f) == f.stage # "call"

SplitDim(f) == IF f.rSplit # -1 THEN f.rows ELSE f.cols

\* the offset of the split line within the section
SplitLine(f) == IF f.rSplit # -1 THEN f.rSplit - f.r0 ELSE f.cSplit - f.c0

\* the number of lines of a half along the split axis of f
HalfDim(f, half) == IF f.rSplit # -1 THEN half.rows ELSE half.cols

\* C17: every section the recursion visits has at least 3 rows and 3
\* columns; a split is along an axis of length dim >= 5, at offset
\* 2..dim-3, both halves include the split line and have between 3 and
\* dim-2 lines along the split axis.
C17_SectionsAtLeast3 ==
    \A k \in 1..Len(stack) :
        LET f == stack[k]
            dim == SplitDim(f)
            first == FirstHalf(f)
            second == SecondHalf(f)
        IN  /\ f.rows >= 3
            /\ f.cols >= 3
            /\ IsSplit(f)
               => /\ (f.rSplit # -1) # (f.cSplit # -1)
                  /\ dim >= 5
                  /\ SplitLine(f) \in 2..(dim - 3)
                  /\ HalfDim(f, first) = SplitLine(f) + 1
                  /\ HalfDim(f, second) = dim - SplitLine(f)
                  /\ HalfDim(f, first) \in 3..(dim - 2)
                  /\ HalfDim(f, second) \in 3..(dim - 2)
                  /\ first.r0 = f.r0 /\ first.c0 = f.c0
                  /\ IF f.rSplit # -1
                     THEN /\ second.r0 = f.rSplit /\ second.c0 = f.c0
                          /\ first.cols = f.cols /\ second.cols = f.cols
                     ELSE /\ second.c0 = f.cSplit /\ second.r0 = f.r0
                          /\ first.rows = f.rows /\ second.rows = f.rows

\* a section split off its centre line, one half of which is split again
C17_Witness ==
    /\ Len(stack) = 3
    /\ IsSplit(stack[1])
    /\ IsSplit(stack[2])
    /\ SplitDim(stack[1]) = 7
    /\ SplitLine(stack[1]) = 2
    /\ stack[2].cols = 5
    /\ stack[3].cols = 3

\* The polyline sets the recursion can return for a section and a
\* requested minSectionSize: the recursion of fitPolylines as a function of
\* the image.
RECURSIVE TraceResults(_, _, _, _, _, _)
TraceResults(r0, c0, rows, cols, iter, requested) ==
    IF IsEmpty(r0, c0, rows, cols) THEN {<<>>}
    ELSE IF IsLeafFor(requested, rows, cols, iter)
    THEN {FitSegments(r0, c0, rows, cols, px) :
             px \in IntersectionCandidates(r0, c0, rows, cols)}
    ELSE LET bestSplit == BestSplit(r0, c0, rows, cols)
             f == [Call(r0, c0, rows, cols, iter) EXCEPT
                      !.rSplit = IF rows >= cols THEN bestSplit ELSE -1,
                      !.cSplit = IF rows >= cols THEN -1 ELSE bestSplit]
             a == FirstHalf(f)
             b == SecondHalf(f)
         IN  {MergePolylines(dest, src) :
                 dest \in TraceResults(a.r0, a.c0, a.rows, a.cols, a.iter,
                                       requested),
                 src \in TraceResults(b.r0, b.c0, b.rows, b.cols, b.iter,
                                      requested)}

FlooredSizes == 0..MinSplitFloor

\* C18: for a requested minSectionSize of 0..5 the split bound is the one
\* of every other request of 0..5 and so is every decision between leaf
\* and split; the output is an output of the recursion for that request,
\* and the sets of possible outputs for it and for the request at the
\* other end of 0..5 are equal.
C18_MinSectionSizeFloored ==
    minSectionSize \in FlooredSizes
    => /\ \A requested \in FlooredSizes :
            SplitSizeFor(requested) = minSplitSize
       /\ (pc = "trace" /\ Top.stage = "call")
          => \A requested \in FlooredSizes :
                IsLeafFor(requested, Top.rows, Top.cols, Top.iter)
                    = IsLeaf(Top.rows, Top.cols, Top.iter)
       /\ (pc = "done" /\ ~IsTooSmall)
          => LET returned ==
                     TraceResults(0, 0, m_rows, m_cols, 0, minSectionSize)
                 other == IF minSectionSize = 0 THEN MinSplitFloor ELSE 0
             IN  /\ result \in {ToCoords(v) : v \in returned}
                 /\ TraceResults(0, 0, m_rows, m_cols, 0, other) = returned

\* a run with a request between the two floors that has split a side of 7
\* into sections of 4 columns, which it did not split
C18_Witness ==
    /\ pc = "done"
    /\ minSectionSize = 4
    /\ m_cols = 7
    /\ nSplits = 1
    /\ nLeafFits = 2
    /\ result # <<>>

\* the activation on top is a call on a section with an on-pixel
AtNonEmptyCall ==
    /\ pc = "trace"
    /\ Top.stage = "call"
    /\ ~IsEmpty(Top.r0, Top.c0, Top.rows, Top.cols)

\* C19: with maxRecursions = L > 0 a section at depth L or more is never
\* split and goes to the leaf fitter if it has an on-pixel, whatever its
\* size; with maxRecursions = 0 a section with an on-pixel goes to the leaf
\* fitter only with both sides below the split bound, and is split
\* otherwise, whatever its depth.
C19_DepthLimit ==
    [][/\ (maxRecursions > 0 /\ nSplits' # nSplits)
          => Top.iter < maxRecursions
       /\ (maxRecursions > 0 /\ AtNonEmptyCall /\ Top.iter >= maxRecursions)
          => nLeafFits' = nLeafFits + 1
       /\ (maxRecursions = 0 /\ nLeafFits' # nLeafFits)
          => (Top.rows < minSplitSize /\ Top.cols < minSplitSize)
       /\ (maxRecursions = 0 /\ AtNonEmptyCall
           /\ ~(Top.rows < minSplitSize /\ Top.cols < minSplitSize))
          => nSplits' = nSplits + 1]_vars

\* the stub image with a depth limit of 1: its half of 5 columns, which is
\* split without the limit, has gone to the leaf fitter
C19_Witness ==
    /\ pc = "done"
    /\ IsScenario(StubImage)
    /\ ~doThinning
    /\ maxRecursions = 1
    /\ minSplitSize = MinSplitFloor
    /\ nSplits = 1
    /\ nLeafFits = 2

(***************************************************************************)
(* Properties of the thinner's exit, of the two halves of a split, and of  *)
(* the positions and pixels the leaf fitter reads.                         *)
(***************************************************************************)
\* C21: when the thinner returns, no interior on-pixel satisfies the
\* flagging condition of sub-iteration 0 and none satisfies that of
\* sub-iteration 1.
C21_ThinFixpointOfBoth ==
    (pc = "trace" /\ doThinning) =>
        \A i \in 1..Len(InteriorPixels) :
            image[InteriorPixels[i]] # 0 =>
                /\ ~IsFlagged(image, FALSE, InteriorPixels[i])
                /\ ~IsFlagged(image, TRUE, InteriorPixels[i])

\* The tracer on images that are split once, along the rows or along the
\* columns, into two halves below the split bound.
InitSplit ==
    \E short \in minSize..(MinSplitFloor - 1), byRow \in BOOLEAN :
        \E on \in SubsetsUpTo(MinSplitFloor * short, MaxOn) :
            Setup(IF byRow THEN MinSplitFloor ELSE short,
                  IF byRow THEN short ELSE MinSplitFloor,
                  on, minSize, 0, FALSE)

NextSplit ==
    \/ StartTracing
    \/ TraceEmpty
    \/ TraceLeaf
    \/ TraceSplit
    \/ TraceMerge

SpecSplit == InitSplit /\ [][NextSplit]_vars

\* the pixels of the split line of f, by column (by row)
SplitLinePixels(f) ==
    IF f.rSplit # -1 THEN Section(f.rSplit, f.c0, 1, f.cols)
    ELSE Section(f.r0, f.cSplit, f.rows, 1)

\* the maximal on-runs of a line that touch neither end of it, as pairs of
\* first and last position
InnerRuns(line) ==
    {run \in (2..(Len(line) - 1)) \X (2..(Len(line) - 1)) :
        /\ run[1] <= run[2]
        /\ \A i \in run[1]..run[2] : image[line[i]] # 0
        /\ image[line[run[1] - 1]] = 0
        /\ image[line[run[2] + 1]] = 0}

\* the pixels of a run that the leaf fit of a half takes as a pxMid
RunMidsOf(half, line, run) ==
    LET segments == Segments(half.r0, half.c0, half.rows, half.cols)
    IN  {segments[i][1] : i \in 1..Len(segments)}
        \cap {line[i] : i \in run[1]..run[2]}

\* C22: when both halves of a split go to the leaf fitter, every maximal
\* on-run of the split line that touches neither end of the line has one
\* and the same midpoint pixel in the fit of the first half and in the fit
\* of the second half, whatever its length.
C22_HalvesShareRunMidpoint ==
    (/\ pc = "trace"
     /\ stack # <<>>
     /\ Top.stage = "merge"
     /\ \A half \in {FirstHalf(Top), SecondHalf(Top)} :
            /\ ~IsEmpty(half.r0, half.c0, half.rows, half.cols)
            /\ IsLeaf(half.rows, half.cols, half.iter))
    => \A run \in InnerRuns(SplitLinePixels(Top)) :
           \E px \in DOMAIN image :
               /\ RunMidsOf(FirstHalf(Top), SplitLinePixels(Top), run) = {px}
               /\ RunMidsOf(SecondHalf(Top), SplitLinePixels(Top), run) = {px}

\* C23 as claimed: every vertex of every returned polyline is an on-pixel
\* of the image that was traced.
C23_VerticesOnPixels ==
    pc = "done" => \A v \in Vertices : IsOnPixel(v)

\* C23 as amended: every returned vertex is a pixel of the image, every
\* vertex on the border of the image is an on-pixel of the traced image, and
\* every returned polyline has a vertex on an on-pixel; a vertex in the
\* interior (the estimated intersection of a leaf section) can be an
\* off-pixel.
C23_BorderVerticesOnPixels ==
    pc = "done" =>
        /\ \A v \in Vertices :
               /\ v[1] \in 0..(m_rows - 1)
               /\ v[2] \in 0..(m_cols - 1)
               /\ IsBorder(Find(v[1], v[2])) => IsOnPixel(v)
        /\ \A i \in 1..Len(result) :
               \E j \in 1..Len(result[i]) : IsOnPixel(result[i][j])

\* a thinned image that was split: one returned vertex is an off-pixel of
\* the interior, another one is on the border
C23_Witness ==
    /\ pc = "done"
    /\ doThinning
    /\ nSplits >= 1
    /\ \E v \in Vertices : ~IsOnPixel(v) /\ ~IsBorder(Find(v[1], v[2]))
    /\ \E v \in Vertices : IsOnPixel(v) /\ IsBorder(Find(v[1], v[2]))

\* The positions the do-while scan reads for pxMid, one per pass, the last
\* pass included; positions count from 1 and Len(frame) + 1 is end.
RECURSIVE ScanReads(_, _)
ScanReads(frame, pxOff) ==
    LET pxOn == FindIf(image, frame, pxOff, TRUE)
        newOff == FindIf(image, frame, pxOn, FALSE)
        mid == pxOn + ((newOff - pxOn) \div 2)
    IN  <<mid>> \o (IF pxOn = Len(frame) + 1 THEN <<>>
                    ELSE ScanReads(frame, newOff))

\* the positions fitSegments reads for pxMid on a section
MidReads(r0, c0, rows, cols) ==
    LET pixelsFrame == Frame(r0, c0, rows, cols)
        pxOff == FindIf(image, pixelsFrame, 1, FALSE)
        pxOn == FindIf(image, pixelsFrame, 1, TRUE)
    IN  IF pxOff = Len(pixelsFrame) + 1 \/ pxOn = Len(pixelsFrame) + 1
        THEN <<>>
        ELSE ScanReads(Rotate(pixelsFrame, pxOff), pxOff)

\* C24: every position the run scan of the leaf fitter reads for the run
\* midpoint is a position of the frame sequence, never end or beyond, in
\* every pass of the loop, the last one included.
C24_MidReadsInsideFrame ==
    AtLeaf =>
        LET reads == MidReads(Top.r0, Top.c0, Top.rows, Top.cols)
            frame == Frame(Top.r0, Top.c0, Top.rows, Top.cols)
        IN  \A i \in 1..Len(reads) : reads[i] \in 1..Len(frame)

====
